---- MODULE Spec2Model ----
(***************************************************************************)
(* Model of scrape_kmt.py: the reaction-list crawler (scrape_all, main),   *)
(* the reaction-string parser (parse_reaction_string) and the name         *)
(* resolver with its process-wide cache (resolve_name,                     *)
(* resolve_name_with_pubchem, pick_primary_solvent).                       *)
(*                                                                         *)
(* Python strings are sequences of one-character strings, so that split,   *)
(* strip, lower, replace and the regular expressions are computed and not  *)
(* assumed.  An optional value (None or a value) is << >> or <<v>>.        *)
(***************************************************************************)
EXTENDS Integers, Sequences, FiniteSets, TLC

VARIABLES
  pc,           \* position of the running program
  targets,      \* main: the target list
  max_pages,    \* main: the page cap handed to scrape_all
  ti,           \* main: index of the target the for loop is at
  all_results,  \* main: the records of the finished targets
  output,       \* the output artifact: << >> until written, then <<records>>
  url,          \* scrape_all: the next URL to fetch, or None
  seen_pages,   \* scrape_all: the URLs already fetched in this call
  pages,        \* scrape_all: the number of pages processed in this call
  results,      \* scrape_all: the records of this call
  status,       \* scrape_all: r.status_code of the last response, or None
  html,         \* scrape_all: the page being processed
  rxn_strings,  \* scrape_all: the raw strings of the page not yet processed
  name_cache,   \* the module-level cache: key -> name or None
  fetched,      \* history: the URLs requested by the current scrape_all call
  extracted,    \* history: every non-empty raw string of the pages fetched, in order
  requests,     \* history: number of remote requests per <<endpoint, structure>>
  last,         \* history: the last resolver call and what it did
  first,        \* history: the first result of each <<function, argument>>
  input,        \* the string given to parse_reaction_string
  parsed,       \* what it returned, or None before the call
  calls,        \* history: number of resolver calls made
  args,         \* main: sys.argv[1:]
  argi,         \* main: the index i of the argument loop (from 1)
  archive_limit,\* main: the cap of an archive expansion, or None
  combined_out, \* main: the output path, or None
  cli           \* history: what the last iteration of the argument loop did

vars == <<pc, targets, max_pages, ti, all_results, output, url, seen_pages, pages,
          results, status, html, rxn_strings, name_cache, fetched, extracted, requests,
          last, first, input, parsed, calls, args, argi, archive_limit, combined_out,
          cli>>

None == << >>
Some(x) == <<x>>

Min(S) == CHOOSE x \in S : \A y \in S : x <= y
Max(S) == CHOOSE x \in S : \A y \in S : x >= y

\* ---------------------------------------------------------------- constants

HTTP_OK == 200

PREFERRED_SOLVENTS ==
  <<
    [key |->
      <<"C","l","C","C","l">>,
     name |->
      <<"d","i","c","h","l","o","r","o","m","e","t","h","a","n","e">>],
    [key |->
      <<"C","O","[","H","]">>,
     name |->
      <<"m","e","t","h","a","n","o","l">>],
    [key |->
      <<"C","1","C","C","C","O","1">>,
     name |->
      <<"t","e","t","r","a","h","y","d","r","o","f","u","r","a","n">>],
    [key |->
      <<"C","C","(","=","O",")","C">>,
     name |->
      <<"a","c","e","t","o","n","e">>],
    [key |->
      <<"C","C","#","N">>,
     name |->
      <<"a","c","e","t","o","n","i","t","r","i","l","e">>],
    [key |->
      <<"C","C","O","C","C">>,
     name |->
      <<"d","i","e","t","h","y","l"," ","e","t","h","e","r">>],
    [key |->
      <<"C","1","(","=","C","C","=","C","C","=","C","1",")","C">>,
     name |->
      <<"t","o","l","u","e","n","e">>],
    [key |->
      <<"O">>,
     name |->
      <<"w","a","t","e","r">>]
  >>

KNOWN_COMPOUND_NAMES ==
  <<
    [key |->
      <<"C","(","C",")","(","=","O",")","O","C","\\","\\","C","=","C","(","/","C",")","\\","\\","C",
       "C","\\","\\","C","=","C","(","/","C",")","\\","\\","C","C","C","=","C","(","C",")","C">>,
     name |->
      <<"(","2","E",",","6","E",")","-","F","a","r","n","e","s","y","l"," ","A","c","e","t","a","t",
       "e">>],
    [key |->
      <<"C","(","C",")","(","=","O",")","O","C","\\","\\","C","=","C","(","\\","\\","C","C","\\","\\",
       "C","=","C","(","\\","\\","C","C","\\","\\","C","=","C","(","\\","\\","C","=","O",")","/",
       "C",")","/","C",")","/","C">>,
     name |->
      <<"(","2","E",",","6","E",",","1","0","E",")","-","1","2","-","o","x","o","-","3",",","7",",",
       "1","1","-","t","r","i","m","e","t","h","y","l","d","o","d","e","c","a","-","2",",","6",
       ",","1","0","-","t","r","i","e","n","-","1","-","y","l"," ","a","c","e","t","a","t","e">>],
    [key |->
      <<"C","(","C",")","(","=","O",")","O","C","\\","\\","C","=","C","(","\\","\\","C","C","\\","\\",
       "C","=","C","(","\\","\\","C","C","\\","\\","C","=","C","(","\\","\\","C","O",")","/","C",
       ")","/","C",")","/","C">>,
     name |->
      <<"(","2","E",",","6","E",",","1","0","E",")","-","1","2","-","H","y","d","r","o","x","y","-",
       "3",",","7",",","1","1","-","t","r","i","m","e","t","h","y","l","d","o","d","e","c","a",
       "-","2",",","6",",","1","0","-","t","r","i","e","n","-","1","-","y","l"," ","a","c","e",
       "t","a","t","e">>],
    [key |->
      <<"C","(","C",")","(","=","O",")","O","C","\\","\\","C","=","C","(","\\","\\","C","C","\\","\\",
       "C","=","C","(","\\","\\","C","C","C","1","O","C","1","(","C",")","C","O",")","/","C",")",
       "/","C">>,
     name |->
      <<"(","2","E",",","6","E",")","-","9","-","(","3","-","(","H","y","d","r","o","x","y","m","e",
       "t","h","y","l",")","-","3","-","m","e","t","h","y","l","o","x","i","r","a","n","-","2",
       "-","y","l",")","-","3",",","7","-","d","i","m","e","t","h","y","l","n","o","n","a","-",
       "2",",","6","-","d","i","e","n","-","1","-","y","l"," ","a","c","e","t","a","t","e">>],
    [key |->
      <<"C","(","C","1","=","C","C","=","C","C","=","C","1",")","(","=","O",")","O","C","[","C","@",
       "@","]","1","(","O","[","C","@","H","]","1","C","C","\\","\\","C","(","=","C","\\","\\",
       "C","C","\\","\\","C","(","=","C","\\","\\","C","O","C","(","C",")","=","O",")","\\","\\",
       "C",")","\\","\\","C",")","C">>,
     name |->
      <<"(","(","2","S",",","3","S",")","-","3","-","(","(","3","E",",","7","E",")","-","9","-","A",
       "c","e","t","o","x","y","-","3",",","7","-","d","i","m","e","t","h","y","l","n","o","n",
       "a","-","3",",","7","-","d","i","e","n","-","1","-","y","l",")","-","2","-","m","e","t",
       "h","y","l","o","x","i","r","a","n","-","2","-","y","l",")","m","e","t","h","y","l"," ",
       "b","e","n","z","o","a","t","e">>]
  >>

\* ------------------------------------------------------------ str methods

IsSpace(c) == c \in {" ", "\t", "\n", "\r"}
Digits == {"0", "1", "2", "3", "4", "5", "6", "7", "8", "9"}

UpperLetters == <<"A","B","C","D","E","F","G","H","I","J","K","L","M",
                  "N","O","P","Q","R","S","T","U","V","W","X","Y","Z">>
LowerLetters == <<"a","b","c","d","e","f","g","h","i","j","k","l","m",
                  "n","o","p","q","r","s","t","u","v","w","x","y","z">>

LowerChar(c) ==
  IF \E i \in DOMAIN UpperLetters : UpperLetters[i] = c
  THEN LowerLetters[CHOOSE i \in DOMAIN UpperLetters : UpperLetters[i] = c]
  ELSE c

\* str.lower()
Lower(s) == [i \in 1..Len(s) |-> LowerChar(s[i])]

\* str.strip()
Strip(s) ==
  LET keep == {i \in 1..Len(s) : ~IsSpace(s[i])}
  IN  IF keep = {} THEN << >> ELSE SubSeq(s, Min(keep), Max(keep))

\* str.startswith(p)
StartsWith(s, p) == Len(s) >= Len(p) /\ SubSeq(s, 1, Len(p)) = p

\* p in s
Contains(s, p) ==
  \E i \in 1..(Len(s) - Len(p) + 1) : SubSeq(s, i, i + Len(p) - 1) = p

\* str.replace(c, "") for a one-character c
Remove(s, c) == SelectSeq(s, LAMBDA x : x # c)

\* str.split(c) for a one-character separator c
RECURSIVE Split(_, _)
Split(s, c) ==
  LET at == {i \in 1..Len(s) : s[i] = c}
  IN  IF at = {} THEN <<s>>
      ELSE <<SubSeq(s, 1, Min(at) - 1)>> \o Split(SubSeq(s, Min(at) + 1, Len(s)), c)

\* re.fullmatch(r"\d{2,7}-\d{2}-\d", s)
IsCasNumber(s) ==
  \E n \in 2..7 :
    /\ Len(s) = n + 5
    /\ \A i \in 1..n : s[i] \in Digits
    /\ s[n + 1] = "-"
    /\ s[n + 2] \in Digits /\ s[n + 3] \in Digits
    /\ s[n + 4] = "-"
    /\ s[n + 5] \in Digits

\* str.replace(c, "", 1): only the first occurrence is removed
RemoveFirst(s, c) ==
  LET at == {i \in DOMAIN s : s[i] = c}
  IN  IF at = {} THEN s ELSE SubSeq(s, 1, Min(at) - 1) \o SubSeq(s, Min(at) + 1, Len(s))

\* the normalizer removing one marker of each kind only
_norm_smiles_FirstOnly(s) == RemoveFirst(RemoveFirst(s, "\\"), "/")

_norm_smiles(s) == Remove(Remove(s, "\\"), "/")

\* ------------------------------------------------- parse_reaction_string

\* [p.strip() for p in ps if p.strip()]
RECURSIVE StripTokens(_)
StripTokens(ps) ==
  IF ps = << >> THEN << >>
  ELSE (IF Strip(Head(ps)) # << >> THEN <<Strip(Head(ps))>> ELSE << >>)
       \o StripTokens(Tail(ps))

\* the split parts used as they are, without the padding loop
Pad3_NoPadding(parts) == parts

\* while len(parts) < 3: parts.append("")
Pad3(parts) ==
  IF Len(parts) >= 3 THEN parts
  ELSE parts \o [i \in 1..(3 - Len(parts)) |-> << >>]

\* what the caller sees when parts[1] or parts[2] does not exist
IndexError == [error |-> "IndexError"]

parse_reaction_string(s) ==
  LET parts == Pad3(Split(s, ">"))
  IN  IF Len(parts) < 3 THEN IndexError ELSE
      [smiles          |-> s,
       reactant_smiles |-> StripTokens(Split(parts[1], ".")),
       solvents        |-> StripTokens(Split(parts[2], ".")),
       product_smiles  |-> StripTokens(Split(parts[3], "."))]

\* ------------------------------------------------------- name resolution
\* A remote answer is what the service does when asked: the request raises
\* (timeout, connection failure), or it returns a status and a body whose
\* JSON decoding may raise.  props is the IUPACName of each entry of
\* PropertyTable.Properties (<< >> for a missing or empty one); info is the
\* Synonym list of each entry of InformationList.Information; text is the
\* body of the naming service.

InDict(d, k) == \E i \in DOMAIN d : d[i].key = k
DictGet(d, k) == d[CHOOSE i \in DOMAIN d : d[i].key = k].name

CacheStore(cache, key, val) ==
  [k \in DOMAIN cache \cup {key} |-> IF k = key THEN val ELSE cache[k]]

PubchemKey(smiles) == <<"name", smiles>>
CactusKey(smiles) == <<"cactus", smiles>>

PropertyReq(smiles) == <<"property", smiles>>
SynonymsReq(smiles) == <<"synonyms", smiles>>
CactusReq(smiles) == <<"cactus", smiles>>

\* the loop over syns of resolve_name_with_pubchem
SynonymSkipped(s) ==
  \/ s = << >>
  \/ StartsWith(Lower(s), <<"c","i","d">>)
  \/ IsCasNumber(s)

FirstSynonym(syns) ==
  LET ok == {i \in DOMAIN syns : ~SynonymSkipped(syns[i])}
  IN  IF ok = {} THEN None ELSE Some(syns[Min(ok)])

\* the first request of resolve_name_with_pubchem raised: requests.get or r.json()
PropertyRaises(pr) == pr.exc \/ (pr.status = HTTP_OK /\ ~pr.json_ok)

PropertyName(pr) ==
  IF pr.status = HTTP_OK /\ pr.props # << >> /\ pr.props[1] # << >>
  THEN Some(pr.props[1]) ELSE None

SynonymsRaises(sr) == sr.exc \/ (sr.status = HTTP_OK /\ ~sr.json_ok)

SynonymsName(sr) ==
  IF sr.status = HTTP_OK /\ sr.info # << >> THEN FirstSynonym(sr.info[1]) ELSE None

\* resolve_name_with_pubchem that stores a name but not a failure
resolve_name_with_pubchem_NoNegativeCache(cache, smiles, pr, sr) ==
  LET key == PubchemKey(smiles)
      Ret(val, reqs) ==
        [result |-> val,
         cache |-> IF val = None THEN cache ELSE CacheStore(cache, key, val),
         reqs |-> reqs]
  IN  IF key \in DOMAIN cache
      THEN [result |-> cache[key], cache |-> cache, reqs |-> << >>]
      ELSE IF PropertyRaises(pr)
      THEN Ret(None, <<PropertyReq(smiles)>>)
      ELSE IF PropertyName(pr) # None
      THEN Ret(PropertyName(pr), <<PropertyReq(smiles)>>)
      ELSE IF SynonymsRaises(sr)
      THEN Ret(None, <<PropertyReq(smiles), SynonymsReq(smiles)>>)
      ELSE Ret(SynonymsName(sr), <<PropertyReq(smiles), SynonymsReq(smiles)>>)

resolve_name_with_pubchem(cache, smiles, pr, sr) ==
  LET key == PubchemKey(smiles)
      Ret(val, reqs) ==
        [result |-> val, cache |-> CacheStore(cache, key, val), reqs |-> reqs]
  IN  IF key \in DOMAIN cache
      THEN [result |-> cache[key], cache |-> cache, reqs |-> << >>]
      ELSE IF PropertyRaises(pr)
      THEN Ret(None, <<PropertyReq(smiles)>>)
      ELSE IF PropertyName(pr) # None
      THEN Ret(PropertyName(pr), <<PropertyReq(smiles)>>)
      ELSE IF SynonymsRaises(sr)
      THEN Ret(None, <<PropertyReq(smiles), SynonymsReq(smiles)>>)
      ELSE Ret(SynonymsName(sr), <<PropertyReq(smiles), SynonymsReq(smiles)>>)

\* _norm_smiles(k) of every key k of KNOWN_COMPOUND_NAMES
NormalizedKeys == [i \in DOMAIN KNOWN_COMPOUND_NAMES |-> _norm_smiles(KNOWN_COMPOUND_NAMES[i].key)]

\* the loop of resolve_name comparing the raw strings only
KnownMatch_ExactOnly(smiles) ==
  {i \in DOMAIN KNOWN_COMPOUND_NAMES : smiles = KNOWN_COMPOUND_NAMES[i].key}

\* the entries the loop of resolve_name accepts for smiles
KnownMatch(smiles) ==
  LET ns == _norm_smiles(smiles)
  IN  {i \in DOMAIN KNOWN_COMPOUND_NAMES :
         smiles = KNOWN_COMPOUND_NAMES[i].key \/ ns = NormalizedKeys[i]}

CactusName(cr) ==
  IF ~cr.exc /\ cr.status = HTTP_OK /\ Strip(cr.text) # << >>
     /\ ~Contains(Strip(cr.text), <<"N","o","t"," ","F","o","u","n","d">>)
  THEN Some(Strip(cr.text)) ELSE None

\* resolve_name asking the naming service without looking into the cache
resolve_name_NoCactusCheck(cache, smiles, pr, sr, cr) ==
  LET p   == resolve_name_with_pubchem(cache, smiles, pr, sr)
      key == CactusKey(smiles)
      hit == KnownMatch(smiles)
  IN  IF hit # {}
      THEN [result |-> Some(KNOWN_COMPOUND_NAMES[Min(hit)].name),
            cache |-> cache, reqs |-> << >>]
      ELSE IF p.result # None
      THEN p
      ELSE [result |-> CactusName(cr),
            cache  |-> CacheStore(p.cache, key, CactusName(cr)),
            reqs   |-> p.reqs \o <<CactusReq(smiles)>>]

resolve_name(cache, smiles, pr, sr, cr) ==
  LET p   == resolve_name_with_pubchem(cache, smiles, pr, sr)
      key == CactusKey(smiles)
      hit == KnownMatch(smiles)
  IN  IF hit # {}
      THEN [result |-> Some(KNOWN_COMPOUND_NAMES[Min(hit)].name),
            cache |-> cache, reqs |-> << >>]
      ELSE IF p.result # None
      THEN p
      ELSE IF key \in DOMAIN p.cache
      THEN [result |-> p.cache[key], cache |-> p.cache, reqs |-> p.reqs]
      ELSE [result |-> CactusName(cr),
            cache  |-> CacheStore(p.cache, key, CactusName(cr)),
            reqs   |-> p.reqs \o <<CactusReq(smiles)>>]

\* pick_primary_solvent looking up the first solvent only
pick_primary_solvent_FirstOnly(cache, solvent_smiles, pr, sr) ==
  LET r == resolve_name_with_pubchem(cache, solvent_smiles[1], pr, sr)
  IN  IF solvent_smiles # << >> /\ InDict(PREFERRED_SOLVENTS, solvent_smiles[1])
      THEN [smiles |-> Some(solvent_smiles[1]),
            name   |-> Some(DictGet(PREFERRED_SOLVENTS, solvent_smiles[1])),
            cache  |-> cache, reqs |-> << >>]
      ELSE IF solvent_smiles # << >>
      THEN [smiles |-> Some(solvent_smiles[1]), name |-> r.result,
            cache |-> r.cache, reqs |-> r.reqs]
      ELSE [smiles |-> None, name |-> None, cache |-> cache, reqs |-> << >>]

pick_primary_solvent(cache, solvent_smiles, pr, sr) ==
  LET pref == {i \in DOMAIN solvent_smiles : InDict(PREFERRED_SOLVENTS, solvent_smiles[i])}
      r    == resolve_name_with_pubchem(cache, solvent_smiles[1], pr, sr)
  IN  IF pref # {}
      THEN [smiles |-> Some(solvent_smiles[Min(pref)]),
            name   |-> Some(DictGet(PREFERRED_SOLVENTS, solvent_smiles[Min(pref)])),
            cache  |-> cache, reqs |-> << >>]
      ELSE IF solvent_smiles # << >>
      THEN [smiles |-> Some(solvent_smiles[1]), name |-> r.result,
            cache |-> r.cache, reqs |-> r.reqs]
      ELSE [smiles |-> None, name |-> None, cache |-> cache, reqs |-> << >>]

\* ------------------------------------------------------------ list pages
\* A URL of the site is its doi and start offset; an href is that, absolute or
\* relative to BASE.  A page is what the two regular expressions and the
\* anchor scan see of it: the string literals of the reactions.push(...)
\* calls, the values of the data-reaction-smiles attributes, and the anchors
\* (text, href or None) in document order.

LIST_TEMPLATE(doi, start) == [doi |-> doi, start |-> start]

urljoin(href) == [doi |-> href.doi, start |-> href.start]

IsTrue(s) == s # << >>

extract_reactions_from_list(page) ==
  SelectSeq(page.pushes, IsTrue) \o SelectSeq(page.attrs, IsTrue)

NextTexts == {<<"n","e","x","t">>, <<">">>, <<"»">>}

find_next_page(page) ==
  LET hit == {i \in DOMAIN page.anchors :
                /\ Lower(Strip(page.anchors[i].text)) \in NextTexts
                /\ page.anchors[i].href # None}
  IN  IF hit = {} THEN None ELSE Some(urljoin(page.anchors[Min(hit)].href[1]))

\* extract_doi_from_arg: a bare argument is the doi; a URL gives the doi of
\* its path, path_doi, or None when the path has no /doi/ segment
extract_doi_from_arg(arg) ==
  IF arg.http THEN arg.path_doi ELSE Some(arg.text)

\* `not d`
NoDoi(d) == d = None \/ d = Some("")

\* the dict appended to results for one raw string
MakeRecord(item, pick) ==
  [solvent         |-> pick.name,
   reactant_smiles |-> item.reactant_smiles,
   solvent_smiles  |-> IF pick.smiles # None /\ pick.smiles[1] # << >>
                       THEN <<pick.smiles[1]>> ELSE << >>,
   product_smiles  |-> item.product_smiles]

\* an append that leaves out a record with nothing in it
EmitRecord_SkipEmpty(res, item, pick) ==
  IF item.reactant_smiles = << >> /\ item.solvents = << >> /\ item.product_smiles = << >>
  THEN res ELSE Append(res, MakeRecord(item, pick))

\* results.append({...})
EmitRecord(res, item, pick) == Append(res, MakeRecord(item, pick))

\* ------------------------------------------------------------------ bounds

MaxPages == 2       \* largest max_pages below the number of pages of the site
MaxCalls == 2       \* resolver calls in one run of the resolver alone
MaxLen == 6         \* length of a reaction string given to the parser alone

\* ------------------------------------------------------------------ inputs
\* What the outside world supplies: the command line's targets, the site's
\* pages and the answers of the two naming services.

DEFAULT_DOI == "10.1021/jacsau.4c01276"
OTHER_DOI == "10.1000/two"

DefaultArg == [http |-> FALSE, text |-> DEFAULT_DOI, path_doi |-> None]

EmptyArg == [http |-> FALSE, text |-> "", path_doi |-> None]
ListUrlArg ==
  [http |-> TRUE, text |-> "https://kmt.vander-lingen.nl/data/reaction/doi/10.1000/two/start/0",
   path_doi |-> Some(OTHER_DOI)]
AboutUrlArg ==
  [http |-> TRUE, text |-> "https://kmt.vander-lingen.nl/about", path_doi |-> None]

\* the target lists the command line may leave
TargetLists ==
  { << >>,
    <<AboutUrlArg, ListUrlArg>>,
    <<DefaultArg, EmptyArg, ListUrlArg>> }

Page1 == LIST_TEMPLATE(DEFAULT_DOI, 0)
Page2 == LIST_TEMPLATE(DEFAULT_DOI, 10)
Page3 == LIST_TEMPLATE(OTHER_DOI, 0)
Page4 == LIST_TEMPLATE(OTHER_DOI, 10)

RxnAB == <<"A",">",">","B">>
RxnCDEF == <<"C",".","D",">","E",">","F">>
RxnEmpty == <<">",">">>
RxnWater == <<"A",">","E",".","O",">","B">>
RxnBare == <<"A">>

\* the reactions.push literals of each list page
Pushes(u) ==
  CASE u = Page1 -> <<RxnAB>>
    [] u = Page2 -> <<RxnCDEF>>
    [] u = Page3 -> << << >>, RxnEmpty, RxnAB >>
    [] OTHER     -> <<RxnWater>>

\* the data-reaction-smiles attributes of each list page
Attrs(u) ==
  CASE u = Page3 -> <<RxnAB>>
    [] u = Page4 -> <<RxnBare>>
    [] OTHER     -> << >>

Rel(u) == [abs |-> FALSE, doi |-> u.doi, start |-> u.start]
Abs(u) == [abs |-> TRUE, doi |-> u.doi, start |-> u.start]

\* the anchors a fetched page may carry
AnchorLists ==
  { << >>,
    << [text |-> <<"p","r","e","v">>, href |-> Some(Rel(Page1))],
       [text |-> <<" ","N","E","X","T"," ">>, href |-> Some(Rel(Page2))] >>,
    << [text |-> <<">">>, href |-> Some(Abs(Page1))] >>,
    << [text |-> <<"»">>, href |-> Some(Rel(Page4))] >>,
    << [text |-> <<"N","e","x","t">>, href |-> None],
       [text |-> <<"n","e","x","t">>, href |-> Some(Abs(Page3))] >>,
    << [text |-> <<"n","e","x","t"," ","p","a","g","e">>, href |-> Some(Rel(Page2))] >> }

PageAt(u, anchors) == [pushes |-> Pushes(u), attrs |-> Attrs(u), anchors |-> anchors]

NoPage == [pushes |-> << >>, attrs |-> << >>, anchors |-> << >>]

Ethanol == <<"e","t","h","a","n","o","l">>

Timeout == [exc |-> TRUE, status |-> 0, json_ok |-> FALSE, props |-> << >>, info |-> << >>,
            text |-> << >>]
Resp(code, json_ok, props, info, text) ==
  [exc |-> FALSE, status |-> code, json_ok |-> json_ok, props |-> props, info |-> info,
   text |-> text]
NoResp == Resp(0, FALSE, << >>, << >>, << >>)

\* answers of the property endpoint: timeout, 404, 200 with a body that is
\* not JSON, 200 with a name
PropResponses ==
  { Timeout,
    Resp(404, TRUE, << >>, << >>, << >>),
    Resp(200, FALSE, << >>, << >>, << >>),
    Resp(200, TRUE, <<Ethanol>>, << >>, << >>) }

\* answers of the synonyms endpoint: timeout, 200 with a list whose third
\* synonym is a name, 200 with a list without a name
SynResponses ==
  { Timeout,
    Resp(200, TRUE, << >>,
         << << <<"C","I","D","7","0","2">>, <<"6","4","-","1","7","-","5">>,
               <<"e","t","h","y","l"," ","a","l","c","o","h","o","l">> >> >>, << >>),
    Resp(200, TRUE, << >>, << << << >>, <<"6","4","-","1","7","-","5">> >> >>, << >>) }

\* answers of the naming service: timeout, 200 with the not-found page, 200
\* with a name
CactusResponses ==
  { Timeout,
    Resp(200, TRUE, << >>, << >>,
         <<"<","h","1",">","P","a","g","e"," ","N","o","t"," ","F","o","u","n","d","<","/","h","1",">">>),
    Resp(200, TRUE, << >>, << >>, <<" ","e","t","h","a","n","o","l","\n">>) }

\* ------------------------------------------------------------- histories

NoCall == [fn |-> "none", arg |-> << >>, result |-> << >>, reqs |-> << >>,
           repeat |-> FALSE, cached |-> FALSE, pr |-> NoResp, sr |-> NoResp, cr |-> NoResp]

Asked(reqs, endpoint) == \E i \in DOMAIN reqs : reqs[i][1] = endpoint

\* what is remembered of a resolver call: the answers only of the requests it made
MkLast(fn, arg, result, reqs, pr, sr, cr) ==
  [fn |-> fn, arg |-> arg, result |-> result, reqs |-> reqs,
   repeat |-> arg \in DOMAIN first[fn],
   cached |-> PubchemKey(arg) \in DOMAIN name_cache,
   pr |-> IF Asked(reqs, "property") THEN pr ELSE NoResp,
   sr |-> IF Asked(reqs, "synonyms") THEN sr ELSE NoResp,
   cr |-> IF Asked(reqs, "cactus") THEN cr ELSE NoResp]

NoFirst == [resolve_name |-> << >>, resolve_name_with_pubchem |-> << >>,
            pick_primary_solvent |-> << >>]

Remember(fn, arg, result) ==
  IF arg \in DOMAIN first[fn] THEN first
  ELSE [first EXCEPT ![fn] = CacheStore(first[fn], arg, result)]

mainVars == <<targets, max_pages, ti, all_results, output>>
scrapeVars == <<url, seen_pages, pages, results, status, html, rxn_strings, fetched, extracted>>
resolverVars == <<name_cache, requests, last, first, calls>>
cliVars == <<args, argi, archive_limit, combined_out, cli>>
pureVars == <<input, parsed, cliVars>>

\* the argument loop has not run
NoCli == [flag |-> << >>, bad |-> FALSE, prev_max_pages |-> 0, prev_limit |-> None,
          expansions |-> << >>, limits |-> {}]

CliIdle ==
  /\ args = << >>
  /\ argi = 1
  /\ archive_limit = None
  /\ combined_out = None
  /\ cli = NoCli

\* ------------------------------------------------------- main, scrape_all

Init ==
  /\ pc = "start"
  /\ targets \in TargetLists
  /\ max_pages \in 0..MaxPages \cup {5}
  /\ ti = 1
  /\ all_results = << >>
  /\ output = None
  /\ url = None
  /\ seen_pages = {}
  /\ pages = 0
  /\ results = << >>
  /\ status = None
  /\ html = NoPage
  /\ rxn_strings = << >>
  /\ name_cache = << >>
  /\ fetched = << >>
  /\ extracted = << >>
  /\ requests = << >>
  /\ last = NoCall
  /\ first = NoFirst
  /\ calls = 0
  /\ input = << >>
  /\ parsed = None
  /\ CliIdle

\* main: an empty target list becomes the default doi
Start ==
  /\ pc = "start"
  /\ targets' = IF targets = << >> THEN <<DefaultArg>> ELSE targets
  /\ pc' = "main"
  /\ UNCHANGED <<max_pages, ti, all_results, output, scrapeVars, resolverVars, pureVars>>

\* main: a target without a doi is skipped
SkipTarget ==
  /\ pc = "main"
  /\ ti <= Len(targets)
  /\ NoDoi(extract_doi_from_arg(targets[ti]))
  /\ ti' = ti + 1
  /\ UNCHANGED <<pc, targets, max_pages, all_results, output, scrapeVars, resolverVars,
                 pureVars>>

\* main calls scrape_all, which sets up its locals
CallScrapeAll ==
  /\ pc = "main"
  /\ ti <= Len(targets)
  /\ ~NoDoi(extract_doi_from_arg(targets[ti]))
  /\ url' = Some(LIST_TEMPLATE(extract_doi_from_arg(targets[ti])[1], 0))
  /\ results' = << >>
  /\ seen_pages' = {}
  /\ pages' = 0
  /\ fetched' = << >>
  /\ status' = None
  /\ pc' = "while"
  /\ UNCHANGED <<mainVars, html, rxn_strings, extracted, resolverVars, pureVars>>

\* the loop condition without the visited-set guard
WhileCond_NoSeenGuard == url # None /\ pages < max_pages

\* while url and url not in seen_pages and pages < max_pages
WhileCond == url # None /\ url[1] \notin seen_pages /\ pages < max_pages

\* the return of scrape_all with main putting the new records in front
Return_Prepend ==
  /\ all_results' = results \o all_results
  /\ results' = << >>
  /\ ti' = ti + 1
  /\ pc' = "main"

\* the return of scrape_all with the records of the call lost
Return_DropResults ==
  /\ all_results' = all_results
  /\ results' = << >>
  /\ ti' = ti + 1
  /\ pc' = "main"

\* scrape_all returns; main extends all_results and moves to the next target
Return ==
  /\ all_results' = all_results \o results
  /\ results' = << >>
  /\ ti' = ti + 1
  /\ pc' = "main"

\* the loop condition fails
WhileExit ==
  /\ pc = "while"
  /\ ~WhileCond
  /\ Return
  /\ UNCHANGED <<targets, max_pages, output, url, seen_pages, pages, status, html,
                 rxn_strings, fetched, extracted, resolverVars, pureVars>>

Request ==
  /\ pc = "while"
  /\ WhileCond
  /\ seen_pages' = seen_pages \cup {url[1]}
  /\ fetched' = Append(fetched, url[1])

\* s.get returns 200
FetchOk ==
  /\ Request
  /\ \E anchors \in AnchorLists :
       /\ html' = PageAt(url[1], anchors)
       /\ rxn_strings' = extract_reactions_from_list(PageAt(url[1], anchors))
       /\ extracted' = extracted \o SelectSeq(Pushes(url[1]) \o Attrs(url[1]), IsTrue)
  /\ status' = Some(HTTP_OK)
  /\ pc' = "for"
  /\ UNCHANGED <<mainVars, url, pages, results, resolverVars, pureVars>>

\* s.get returns another status: break
FetchNot200 ==
  /\ Request
  /\ \E code \in {404, 503} : status' = Some(code)
  /\ Return
  /\ UNCHANGED <<targets, max_pages, output, url, pages, html, rxn_strings, extracted,
                 resolverVars, pureVars>>

\* s.get raises: nothing catches it, the program ends with a traceback
FetchRaises ==
  /\ Request
  /\ pc' = "crashed"
  /\ UNCHANGED <<mainVars, url, pages, results, status, html, rxn_strings, extracted,
                 resolverVars, pureVars>>

\* one iteration of `for rs in rxn_strings`
ForRecord ==
  /\ pc = "for"
  /\ rxn_strings # << >>
  /\ \E pr \in PropResponses, sr \in SynResponses :
       LET item == parse_reaction_string(Head(rxn_strings))
           pick == pick_primary_solvent(name_cache, item.solvents, pr, sr)
       IN  /\ results' = EmitRecord(results, item, pick)
           /\ name_cache' = pick.cache
           /\ requests' = requests \o pick.reqs
           /\ last' = MkLast("pick_primary_solvent", item.solvents,
                             <<pick.smiles, pick.name>>, pick.reqs, pr, sr, NoResp)
           /\ first' = Remember("pick_primary_solvent", item.solvents,
                                <<pick.smiles, pick.name>>)
  /\ rxn_strings' = Tail(rxn_strings)
  /\ UNCHANGED <<pc, mainVars, url, seen_pages, pages, status, html, fetched, extracted,
                 calls, pureVars>>

\* the page's strings are done: follow the next link
PageDone ==
  /\ pc = "for"
  /\ rxn_strings = << >>
  /\ url' = find_next_page(html)
  /\ pages' = pages + 1
  /\ pc' = "while"
  /\ UNCHANGED <<mainVars, seen_pages, results, status, html, rxn_strings, fetched,
                 extracted, resolverVars, pureVars>>

\* main: all targets done, the output is written if there is any record
Finish ==
  /\ pc = "main"
  /\ ti > Len(targets)
  /\ output' = IF all_results # << >> THEN Some(all_results) ELSE None
  /\ pc' = "done"
  /\ UNCHANGED <<targets, max_pages, ti, all_results, scrapeVars, resolverVars, pureVars>>

Next ==
  \/ Start
  \/ SkipTarget
  \/ CallScrapeAll
  \/ WhileExit
  \/ FetchOk
  \/ FetchNot200
  \/ FetchRaises
  \/ ForRecord
  \/ PageDone
  \/ Finish

Spec == Init /\ [][Next]_vars

\* --------------------------------------------------- the resolver alone

KnownKey == KNOWN_COMPOUND_NAMES[1].key
\* the same compound as the site writes it: single bond markers
KnownVariant == SelectSeq([i \in 1..Len(KnownKey) |->
                   IF i > 1 /\ KnownKey[i] = "\\" /\ KnownKey[i - 1] = "\\" THEN "" ELSE KnownKey[i]],
                 LAMBDA c : c # "")

Structures == {KnownKey, KnownVariant, <<"C","C","O">>, <<"E">>}

SolventLists == { << >>, << <<"E">>, <<"O">> >>, << <<"C","C","O">> >>, <<KnownVariant>> }

InitResolver ==
  /\ pc = "resolver"
  /\ targets = << >>
  /\ max_pages = 0
  /\ ti = 1
  /\ all_results = << >>
  /\ output = None
  /\ url = None
  /\ seen_pages = {}
  /\ pages = 0
  /\ results = << >>
  /\ status = None
  /\ html = NoPage
  /\ rxn_strings = << >>
  /\ name_cache = << >>
  /\ fetched = << >>
  /\ extracted = << >>
  /\ requests = << >>
  /\ last = NoCall
  /\ first = NoFirst
  /\ calls = 0
  /\ input = << >>
  /\ parsed = None
  /\ CliIdle

CallResolveName ==
  /\ pc = "resolver"
  /\ calls < MaxCalls
  /\ \E s \in Structures, pr \in PropResponses, sr \in SynResponses, cr \in CactusResponses :
       LET r == resolve_name(name_cache, s, pr, sr, cr)
       IN  /\ name_cache' = r.cache
           /\ requests' = requests \o r.reqs
           /\ last' = MkLast("resolve_name", s, r.result, r.reqs, pr, sr, cr)
           /\ first' = Remember("resolve_name", s, r.result)
  /\ calls' = calls + 1
  /\ UNCHANGED <<pc, mainVars, scrapeVars, pureVars>>

CallResolvePubchem ==
  /\ pc = "resolver"
  /\ calls < MaxCalls
  /\ \E s \in Structures, pr \in PropResponses, sr \in SynResponses :
       LET r == resolve_name_with_pubchem(name_cache, s, pr, sr)
       IN  /\ name_cache' = r.cache
           /\ requests' = requests \o r.reqs
           /\ last' = MkLast("resolve_name_with_pubchem", s, r.result, r.reqs, pr, sr, NoResp)
           /\ first' = Remember("resolve_name_with_pubchem", s, r.result)
  /\ calls' = calls + 1
  /\ UNCHANGED <<pc, mainVars, scrapeVars, pureVars>>

CallPickPrimarySolvent ==
  /\ pc = "resolver"
  /\ calls < MaxCalls
  /\ \E l \in SolventLists, pr \in PropResponses, sr \in SynResponses :
       LET r == pick_primary_solvent(name_cache, l, pr, sr)
       IN  /\ name_cache' = r.cache
           /\ requests' = requests \o r.reqs
           /\ last' = MkLast("pick_primary_solvent", l, <<r.smiles, r.name>>, r.reqs, pr, sr,
                             NoResp)
           /\ first' = Remember("pick_primary_solvent", l, <<r.smiles, r.name>>)
  /\ calls' = calls + 1
  /\ UNCHANGED <<pc, mainVars, scrapeVars, pureVars>>

NextResolver == CallResolveName \/ CallResolvePubchem \/ CallPickPrimarySolvent

SpecResolver == InitResolver /\ [][NextResolver]_vars

\* ----------------------------------------------------- the parser alone

ParseAlphabet == {"A", "B", "C", ".", ">", " "}

ParseInputs == UNION {[1..n -> ParseAlphabet] : n \in 0..MaxLen}

InitParser ==
  /\ pc = "parse"
  /\ input \in ParseInputs
  /\ parsed = None
  /\ targets = << >>
  /\ max_pages = 0
  /\ ti = 1
  /\ all_results = << >>
  /\ output = None
  /\ url = None
  /\ seen_pages = {}
  /\ pages = 0
  /\ results = << >>
  /\ status = None
  /\ html = NoPage
  /\ rxn_strings = << >>
  /\ name_cache = << >>
  /\ fetched = << >>
  /\ extracted = << >>
  /\ requests = << >>
  /\ last = NoCall
  /\ first = NoFirst
  /\ calls = 0
  /\ CliIdle

CallParse ==
  /\ pc = "parse"
  /\ parsed' = Some(parse_reaction_string(input))
  /\ pc' = "parsed"
  /\ UNCHANGED <<input, cliVars, mainVars, scrapeVars, resolverVars>>

NextParser == CallParse

SpecParser == InitParser /\ [][NextParser]_vars


\* ------------------------------------------------------------ argument loop
\* main's loop over sys.argv[1:].  Arguments are Python strings: tuples of
\* characters.  The loop index i of the code counts from 0, argi from 1.

MaxArgs == 4        \* length of the command line given to the argument loop alone

DEFAULT_MAX_PAGES == 15
DEFAULT_OUT ==
  <<"k","m","t","_","r","e","a","c","t","i","o","n","s","_","c","o","m","b","i","n","e","d",".",
      "j","s","o","n">>

OptMaxPages == <<"-","-","m","a","x","-","p","a","g","e","s">>
OptDoi == <<"-","-","d","o","i">>
OptCombinedOut == <<"-","-","c","o","m","b","i","n","e","d","-","o","u","t">>
OptArchive == <<"-","-","a","r","c","h","i","v","e">>
OptArchiveLimit == <<"-","-","a","r","c","h","i","v","e","-","l","i","m","i","t">>
ArchiveUrl == <<"h","t","t","p",":","/","/","k","/","a","r","c","h","i","v","e">>

\* the words a command line is made of: the five options, an integer, a word
\* that is no integer, and the URL of an archive page
ArgWords ==
  { OptMaxPages, OptDoi, OptCombinedOut, OptArchive, OptArchiveLimit,
    <<"1">>, <<"x">>, ArchiveUrl }

RECURSIVE SeqsUpTo(_, _)
SeqsUpTo(S, n) ==
  IF n = 0 THEN { << >> }
  ELSE LET shorter == SeqsUpTo(S, n - 1)
       IN  shorter \cup {Append(s, x) : s \in {t \in shorter : Len(t) = n - 1}, x \in S}

CommandLines == SeqsUpTo(ArgWords, MaxArgs)

DigitChars == <<"0", "1", "2", "3", "4", "5", "6", "7", "8", "9">>
DigitValue(c) == (CHOOSE k \in DOMAIN DigitChars : DigitChars[k] = c) - 1

RECURSIVE DecimalValue(_)
DecimalValue(ds) ==
  IF ds = << >> THEN 0
  ELSE 10 * DecimalValue(SubSeq(ds, 1, Len(ds) - 1)) + DigitValue(ds[Len(ds)])

\* int(s) of a str: surrounding whitespace is stripped, one sign is allowed,
\* then decimal digits, single underscores between digits allowed.  The
\* result is Some(value), or None where int() raises ValueError.
int(s) ==
  LET t == Strip(s)
      signed == t # << >> /\ t[1] \in {"+", "-"}
      body == IF signed THEN Tail(t) ELSE t
      wellFormed ==
        /\ body # << >>
        /\ \A k \in DOMAIN body : body[k] \in Digits \cup {"_"}
        /\ body[1] # "_" /\ body[Len(body)] # "_"
        /\ \A k \in 1..(Len(body) - 1) : ~(body[k] = "_" /\ body[k + 1] = "_")
      value == DecimalValue(Remove(body, "_"))
  IN  IF ~wellFormed THEN None
      ELSE IF signed /\ t[1] = "-" THEN Some(0 - value) ELSE Some(value)

\* ds[:n] of a list
SliceTo(ds, n) ==
  IF n >= 0 THEN SubSeq(ds, 1, Min({n, Len(ds)}))
  ELSE SubSeq(ds, 1, Max({Len(ds) + n, 0}))

\* the identifiers of the archive page, in ascending order of Python's str
DoiA == <<"1","0",".","1","/","a">>
DoiB == <<"1","0",".","1","/","b">>
DoiC == <<"1","0",".","1","/","c">>
DoiOrder == <<DoiA, DoiB, DoiC>>

\* an anchor of the archive page: whether its href holds /data/reaction/doi/
\* and what the regular expression /doi/(.+?)(?:/start|$) captures in it
Anchor(reaction, doi) == [reaction |-> reaction, doi |-> doi]

\* sorted(set(dois))
extract_dois_from_archive(anchors) ==
  LET found == {anchors[k].doi[1] :
                  k \in {j \in DOMAIN anchors : anchors[j].reaction /\ anchors[j].doi # None}}
  IN  SelectSeq(DoiOrder, LAMBDA d : d \in found)

ArchiveAnchors ==
  <<Anchor(TRUE, Some(DoiB)), Anchor(FALSE, Some(DoiC)), Anchor(TRUE, Some(DoiA)),
    Anchor(TRUE, Some(DoiB)), Anchor(TRUE, None)>>

ArchivePage(code, anchors) == [exc |-> FALSE, status |-> code, anchors |-> anchors]
ArchiveTimeout == [exc |-> TRUE, status |-> 0, anchors |-> << >>]

\* what s.get(url) of an archive gives: an exception, a 404, the page.  A word
\* that is no URL makes requests raise MissingSchema.
ArchiveResponses(u) ==
  IF StartsWith(u, <<"h","t","t","p">>)
  THEN {ArchiveTimeout, ArchivePage(404, << >>), ArchivePage(HTTP_OK, ArchiveAnchors)}
  ELSE {ArchiveTimeout}

\* the identifiers one archive request adds to targets (lines 422-430, 441-449)
ExpandArchive(r, limit) ==
  IF r.exc \/ r.status # HTTP_OK THEN << >>
  ELSE LET ds == extract_dois_from_archive(r.anchors)
       IN  IF limit # None THEN SliceTo(ds, limit[1]) ELSE ds

HasValue == argi + 1 <= Len(args)

\* history of one iteration
Did(flag, bad, expansions, limits) ==
  [flag |-> flag, bad |-> bad, prev_max_pages |-> max_pages, prev_limit |-> archive_limit,
   expansions |-> expansions, limits |-> limits]

InitCli ==
  /\ pc = "cli"
  /\ args \in CommandLines
  /\ argi = 1
  /\ max_pages = DEFAULT_MAX_PAGES
  /\ targets = << >>
  /\ combined_out = None
  /\ archive_limit = None
  /\ cli = NoCli
  /\ ti = 1
  /\ all_results = << >>
  /\ output = None
  /\ url = None
  /\ seen_pages = {}
  /\ pages = 0
  /\ results = << >>
  /\ status = None
  /\ html = NoPage
  /\ rxn_strings = << >>
  /\ name_cache = << >>
  /\ fetched = << >>
  /\ extracted = << >>
  /\ requests = << >>
  /\ last = NoCall
  /\ first = NoFirst
  /\ calls = 0
  /\ input = << >>
  /\ parsed = None

CliRest == <<ti, all_results, output, scrapeVars, resolverVars, input, parsed>>

\* lines 407-412
ArgMaxPages ==
  /\ pc = "cli" /\ argi <= Len(args)
  /\ args[argi] = OptMaxPages /\ HasValue
  /\ LET n == int(args[argi + 1])
     IN  /\ max_pages' = IF n # None THEN n[1] ELSE max_pages
         /\ cli' = Did(OptMaxPages, n = None, cli.expansions, cli.limits)
  /\ argi' = argi + 2
  /\ UNCHANGED <<pc, args, targets, combined_out, archive_limit, CliRest>>

\* lines 413-415
ArgDoi ==
  /\ pc = "cli" /\ argi <= Len(args)
  /\ args[argi] = OptDoi /\ HasValue
  /\ targets' = Append(targets, args[argi + 1])
  /\ cli' = Did(OptDoi, FALSE, cli.expansions, cli.limits)
  /\ argi' = argi + 2
  /\ UNCHANGED <<pc, args, max_pages, combined_out, archive_limit, CliRest>>

\* lines 416-418
ArgCombinedOut ==
  /\ pc = "cli" /\ argi <= Len(args)
  /\ args[argi] = OptCombinedOut /\ HasValue
  /\ combined_out' = Some(args[argi + 1])
  /\ cli' = Did(OptCombinedOut, FALSE, cli.expansions, cli.limits)
  /\ argi' = argi + 2
  /\ UNCHANGED <<pc, args, max_pages, targets, archive_limit, CliRest>>

\* lines 419-431
ArgArchive ==
  /\ pc = "cli" /\ argi <= Len(args)
  /\ args[argi] = OptArchive /\ HasValue
  /\ \E r \in ArchiveResponses(args[argi + 1]) :
       LET ds == ExpandArchive(r, archive_limit)
       IN  /\ targets' = targets \o ds
           /\ cli' = Did(OptArchive, FALSE, Append(cli.expansions, Len(ds)), cli.limits)
  /\ argi' = argi + 2
  /\ UNCHANGED <<pc, args, max_pages, combined_out, archive_limit, CliRest>>

\* lines 432-437
ArgArchiveLimit ==
  /\ pc = "cli" /\ argi <= Len(args)
  /\ args[argi] = OptArchiveLimit /\ HasValue
  /\ LET n == int(args[argi + 1])
     IN  /\ archive_limit' = n
         /\ cli' = Did(OptArchiveLimit, n = None, cli.expansions, 
                     cli.limits \cup (IF n = None THEN {} ELSE {n[1]}))
  /\ argi' = argi + 2
  /\ UNCHANGED <<pc, args, max_pages, targets, combined_out, CliRest>>

\* which of the five option branches takes the argument at argi
IsOption(a) == a \in {OptMaxPages, OptDoi, OptCombinedOut, OptArchive, OptArchiveLimit}

\* lines 438-449: a word holding "archive" is fetched as an archive
ArgPositionalArchive ==
  /\ pc = "cli" /\ argi <= Len(args)
  /\ ~(IsOption(args[argi]) /\ HasValue)
  /\ Contains(args[argi], <<"a","r","c","h","i","v","e">>)
  /\ \E r \in ArchiveResponses(args[argi]) :
       LET ds == ExpandArchive(r, archive_limit)
       IN  /\ targets' = targets \o ds
           /\ cli' = Did(args[argi], FALSE, Append(cli.expansions, Len(ds)), cli.limits)
  /\ argi' = argi + 1
  /\ UNCHANGED <<pc, args, max_pages, combined_out, archive_limit, CliRest>>

\* lines 438, 450-452: any other word is a target
ArgPositional ==
  /\ pc = "cli" /\ argi <= Len(args)
  /\ ~(IsOption(args[argi]) /\ HasValue)
  /\ ~Contains(args[argi], <<"a","r","c","h","i","v","e">>)
  /\ targets' = Append(targets, args[argi])
  /\ cli' = Did(args[argi], FALSE, cli.expansions, cli.limits)
  /\ argi' = argi + 1
  /\ UNCHANGED <<pc, args, max_pages, combined_out, archive_limit, CliRest>>

\* lines 405, 453-456: the loop ends and the defaults are filled in
ArgsDone ==
  /\ pc = "cli" /\ argi > Len(args)
  /\ pc' = "cli_done"
  /\ targets' = IF targets = << >> THEN <<DEFAULT_DOI>> ELSE targets
  /\ combined_out' = IF combined_out = None THEN Some(DEFAULT_OUT) ELSE combined_out
  /\ UNCHANGED <<args, argi, max_pages, archive_limit, cli, CliRest>>

NextCli ==
  \/ ArgMaxPages
  \/ ArgDoi
  \/ ArgCombinedOut
  \/ ArgArchive
  \/ ArgArchiveLimit
  \/ ArgPositionalArchive
  \/ ArgPositional
  \/ ArgsDone

SpecCli == InitCli /\ [][NextCli]_vars

\* ------------------------------------------------------- parse_details_page
\* A detail page is the sequence of its blocks in document order: tables,
\* definition lists and paragraphs.  A cell, a dt, a dd and a paragraph are
\* given by their stripped_strings; a child of a dl that is a text node has
\* the name "" (BeautifulSoup: name None) and its raw text as only string.
\* sorted(set(xs)) is the set xs: the sorted list without duplicates is one
\* representation of it.

MaxBlocks == 2      \* number of blocks of a detail page

Table(rows) == [kind |-> "table", rows |-> rows, children |-> << >>, strings |-> << >>]
Dl(children) == [kind |-> "dl", rows |-> << >>, children |-> children, strings |-> << >>]
Para(strings) == [kind |-> "p", rows |-> << >>, children |-> << >>, strings |-> strings]
Child(name, strings) == [name |-> name, strings |-> strings]

\* sep.join(strings)
RECURSIVE Join(_, _)
Join(strings, sep) ==
  IF strings = << >> THEN << >>
  ELSE IF Len(strings) = 1 THEN strings[1]
  ELSE strings[1] \o sep \o Join(Tail(strings), sep)

RECURSIVE Concat(_)
Concat(seqs) == IF seqs = << >> THEN << >> ELSE Head(seqs) \o Concat(Tail(seqs))

\* el.stripped_strings: the strings that are not only whitespace, stripped
stripped_strings(strings) == StripTokens(strings)

\* soup.stripped_strings of one block
BlockStrings(b) ==
  IF b.kind = "table"
  THEN Concat([r \in DOMAIN b.rows |->
                 Concat([c \in DOMAIN b.rows[r] |-> stripped_strings(b.rows[r][c])])])
  ELSE IF b.kind = "dl"
  THEN Concat([c \in DOMAIN b.children |-> stripped_strings(b.children[c].strings)])
  ELSE stripped_strings(b.strings)

\* line 92
PageText(page) == Join(Concat([b \in DOMAIN page |-> BlockStrings(page[b])]), <<"\n">>)

\* lines 107-117 and 130-136: the category of a lower-cased key
Classify(key) ==
  IF Contains(key, <<"r","e","a","c","t","a","n","t">>) /\ Contains(key, <<"s","m","i","l","e","s">>) THEN "reactant_smiles"
  ELSE IF Contains(key, <<"r","e","a","c","t","a","n","t">>) /\ Contains(key, <<"s","o","l","v","e","n","t">>) THEN "solvents"
  ELSE IF Contains(key, <<"p","r","o","d","u","c","t">>) /\ Contains(key, <<"s","m","i","l","e","s">>) THEN "product_smiles"
  ELSE IF Contains(key, <<"p","r","o","d","u","c","t">>) /\ (Contains(key, <<"n","a","m","e">>) \/ key = <<"p","r","o","d","u","c","t">>)
       THEN "product_name"
  ELSE ""

\* the values one key/value pair adds to a category
Collected(category, vals) ==
  IF category \in {"reactant_smiles", "product_smiles"}
  THEN SelectSeq(vals, LAMBDA v : v # << >> /\ v # <<"S","M","I","L","E","S">>)
  ELSE SelectSeq(vals, LAMBDA v : v # << >>)

NoData == [reactant_smiles |-> << >>, solvents |-> << >>, product_smiles |-> << >>,
           product_name |-> << >>]

Add(data, key, vals) ==
  LET category == Classify(key)
  IN  IF category = "" THEN data
      ELSE [data EXCEPT ![category] = @ \o Collected(category, vals)]

\* lines 100-118: the rows of one table
RECURSIVE ScanRows(_, _)
ScanRows(data, rows) ==
  IF rows = << >> THEN data
  ELSE LET cells == Head(rows)
       IN  IF Len(cells) < 2 THEN ScanRows(data, Tail(rows))
           ELSE ScanRows(Add(data, Lower(Join(stripped_strings(cells[1]), <<" ">>)),
                             stripped_strings(cells[2])),
                         Tail(rows))

\* lines 123-137: the children of one dl, taken two by two from the first
RECURSIVE ScanChildren(_, _)
ScanChildren(data, items) ==
  IF Len(items) < 2 THEN data
  ELSE LET dt == items[1]
           dd == items[2]
           rest == SubSeq(items, 3, Len(items))
       IN  IF dt.name # "dt" \/ dd.name # "dd" THEN ScanChildren(data, rest)
           ELSE ScanChildren(Add(data, Lower(Join(stripped_strings(dt.strings), <<" ">>)),
                                 stripped_strings(dd.strings)),
                             rest)

\* lines 98-118
RECURSIVE TableLayer(_, _)
TableLayer(data, page) ==
  IF page = << >> THEN data
  ELSE TableLayer(IF Head(page).kind = "table" THEN ScanRows(data, Head(page).rows) ELSE data,
                  Tail(page))

\* lines 121-137
RECURSIVE DlLayer(_, _)
DlLayer(data, page) ==
  IF page = << >> THEN data
  ELSE DlLayer(IF Head(page).kind = "dl" THEN ScanChildren(data, Head(page).children) ELSE data,
               Tail(page))

\* the first index from p on that holds no whitespace, Len(text) + 1 if none
SkipSpace(text, p) ==
  LET at == {k \in p..Len(text) : ~IsSpace(text[k])}
  IN  IF at = {} THEN Len(text) + 1 ELSE Min(at)

\* the match of SMILES\s*[:=]\s*([^\s]+) that starts at p, re.I: its group
\* and its last index, or None
MatchAt(text, p) ==
  IF ~(p + 5 <= Len(text) /\ Lower(SubSeq(text, p, p + 5)) = <<"s","m","i","l","e","s">>) THEN None
  ELSE LET q == SkipSpace(text, p + 6)
       IN  IF ~(q <= Len(text) /\ text[q] \in {":", "="}) THEN None
           ELSE LET r == SkipSpace(text, q + 1)
                    spaces == {k \in r..Len(text) : IsSpace(text[k])}
                    e == IF spaces = {} THEN Len(text) ELSE Min(spaces) - 1
                IN  IF r > Len(text) THEN None
                    ELSE Some([group |-> SubSeq(text, r, e), end |-> e])

\* line 140: the groups of re.finditer, from index p on
RECURSIVE FindSmiles(_, _)
FindSmiles(text, p) ==
  LET starts == {k \in p..Len(text) : MatchAt(text, k) # None}
  IN  IF starts = {} THEN << >>
      ELSE LET m == MatchAt(text, Min(starts))[1]
           IN  <<m.group>> \o FindSmiles(text, m.end + 1)

Range(s) == {s[k] : k \in DOMAIN s}

\* lines 143-148
Result(data) ==
  [reactant_smiles |-> Range(data.reactant_smiles) \ {<< >>},
   solvents |-> Range(data.solvents) \ {<< >>},
   product_smiles |-> Range(data.product_smiles) \ {<< >>},
   product_name |-> IF data.product_name # << >> THEN Some(data.product_name[1]) ELSE None]

\* the free-text layer run whatever the earlier layers found
parse_details_page_AlwaysFreeText(page) ==
  LET tabled == TableLayer(NoData, page)
      listed == IF tabled.reactant_smiles = << >> \/ tabled.solvents = << >>
                   \/ tabled.product_smiles = << >>
                THEN DlLayer(tabled, page) ELSE tabled
  IN  Result([listed EXCEPT !.reactant_smiles = @ \o FindSmiles(PageText(page), 1)])

parse_details_page(page) ==
  LET tabled == TableLayer(NoData, page)
      listed == IF tabled.reactant_smiles = << >> \/ tabled.solvents = << >>
                   \/ tabled.product_smiles = << >>
                THEN DlLayer(tabled, page) ELSE tabled
      texted == IF listed.reactant_smiles = << >>
                THEN [listed EXCEPT !.reactant_smiles = FindSmiles(PageText(page), 1)]
                ELSE listed
  IN  Result(texted)

\* ---- the blocks detail pages are made of
CCO == <<"C","C","O">>
CCN == <<"C","C","N">>
Acetaldehyde == <<"C","C","=","O">>
Whitespace == Child("", <<<<"\n">>>>)

\* a table with the three structure categories, one row of a single cell
FullTable ==
  Table(<< <<<<<<"R","e","a","c","t","a","n","t"," ","S","M","I","L","E","S">>>>, <<<<"S","M","I","L","E","S">>, CCO>>>>,
           <<<<<<"N","o","t","e">>>>>>,
           <<<<<<"R","e","a","c","t","a","n","t">>, <<"s","o","l","v","e","n","t">>>>, <<<<"O">>>>>>,
           <<<<<<"P","r","o","d","u","c","t"," ","S","M","I","L","E","S">>>>, <<Acetaldehyde>>>> >>)

\* a table that names the product only
NameTable == Table(<< <<<<<<"P","r","o","d","u","c","t">>>>, <<<<"e","t","h","a","n","a","l">>>>, <<<<"i","g","n","o","r","e","d">>>>>> >>)

\* <dl><dt>Reactant SMILES</dt><dd>CCO</dd><dt>Product name</dt><dd>ethanal</dd></dl>
TightDl ==
  Dl(<<Child("dt", <<<<"R","e","a","c","t","a","n","t"," ","S","M","I","L","E","S">>>>), Child("dd", <<CCO>>),
       Child("dt", <<<<"P","r","o","d","u","c","t"," ","n","a","m","e">>>>), Child("dd", <<<<"e","t","h","a","n","a","l">>>>)>>)

\* the same list written one element per line
SpacedDl ==
  Dl(<<Whitespace, Child("dt", <<<<"R","e","a","c","t","a","n","t"," ","S","M","I","L","E","S">>>>), Whitespace, Child("dd", <<CCO>>),
       Whitespace>>)

\* a list that names solvent and product, so that reactants stay empty
SolventDl ==
  Dl(<<Child("dt", <<<<"R","e","a","c","t","a","n","t"," ","s","o","l","v","e","n","t">>>>), Child("dd", <<<<"O">>>>),
       Child("dt", <<<<"P","r","o","d","u","c","t"," ","S","M","I","L","E","S">>>>), Child("dd", <<Acetaldehyde>>)>>)

SmilesPara == Para(<<<<"S","M","I","L","E","S",":"," ","C","C","N">>>>)
SplitPara == Para(<<<<"R","e","a","g","e","n","t"," ","s","m","i","l","e","s">>, <<"="," ","C","C","O",".">>>>)
PlainPara == Para(<<<<"Y","i","e","l","d"," ","9","0"," ","%">>>>)

Blocks == {FullTable, NameTable, TightDl, SpacedDl, SolventDl, SmilesPara, SplitPara, PlainPara}

DetailPages == SeqsUpTo(Blocks, MaxBlocks)

InitDetails ==
  /\ pc = "details"
  /\ input \in DetailPages
  /\ parsed = None
  /\ targets = << >>
  /\ max_pages = 0
  /\ ti = 1
  /\ all_results = << >>
  /\ output = None
  /\ url = None
  /\ seen_pages = {}
  /\ pages = 0
  /\ results = << >>
  /\ status = None
  /\ html = NoPage
  /\ rxn_strings = << >>
  /\ name_cache = << >>
  /\ fetched = << >>
  /\ extracted = << >>
  /\ requests = << >>
  /\ last = NoCall
  /\ first = NoFirst
  /\ calls = 0
  /\ CliIdle

CallParseDetails ==
  /\ pc = "details"
  /\ parsed' = Some(parse_details_page(input))
  /\ pc' = "details_done"
  /\ UNCHANGED <<input, cliVars, mainVars, scrapeVars, resolverVars>>

NextDetails == CallParseDetails

SpecDetails == InitDetails /\ [][NextDetails]_vars

\* ------------------------------------------------------------- _norm_smiles
\* The normalizer alone, on every string over a carbon, a double bond and the
\* two stereo markers.

NormAlphabet == {"C", "=", "\\", "/"}
NormInputs == SeqsUpTo(NormAlphabet, MaxLen)

InitNorm ==
  /\ pc = "norm"
  /\ input \in NormInputs
  /\ parsed = None
  /\ targets = << >>
  /\ max_pages = 0
  /\ ti = 1
  /\ all_results = << >>
  /\ output = None
  /\ url = None
  /\ seen_pages = {}
  /\ pages = 0
  /\ results = << >>
  /\ status = None
  /\ html = NoPage
  /\ rxn_strings = << >>
  /\ name_cache = << >>
  /\ fetched = << >>
  /\ extracted = << >>
  /\ requests = << >>
  /\ last = NoCall
  /\ first = NoFirst
  /\ calls = 0
  /\ CliIdle

CallNorm ==
  /\ pc = "norm"
  /\ parsed' = Some(_norm_smiles(input))
  /\ pc' = "normed"
  /\ UNCHANGED <<input, cliVars, mainVars, scrapeVars, resolverVars>>

NextNorm == CallNorm

SpecNorm == InitNorm /\ [][NextNorm]_vars

\* ------------------------------------------------------- the synonym lookup
\* resolve_name_with_pubchem on a structure whose property lookup answers 404
\* and whose synonym lookup answers 200 with one list of synonyms.

MaxSynonyms == 3    \* length of the synonym list

Cidofovir == <<"C","i","d","o","f","o","v","i","r">>

\* an empty entry, a compound identifier, a registry number, a drug whose name
\* begins with the letters cid, a plain name
Synonyms == {<< >>, <<"C","I","D","7","0","2">>, <<"6","4","-","1","7","-","5">>, Cidofovir, Ethanol}

SynonymLists == SeqsUpTo(Synonyms, MaxSynonyms)

InitSynonyms ==
  /\ pc = "synonyms"
  /\ input \in SynonymLists
  /\ parsed = None
  /\ targets = << >>
  /\ max_pages = 0
  /\ ti = 1
  /\ all_results = << >>
  /\ output = None
  /\ url = None
  /\ seen_pages = {}
  /\ pages = 0
  /\ results = << >>
  /\ status = None
  /\ html = NoPage
  /\ rxn_strings = << >>
  /\ name_cache = << >>
  /\ fetched = << >>
  /\ extracted = << >>
  /\ requests = << >>
  /\ last = NoCall
  /\ first = NoFirst
  /\ calls = 0
  /\ CliIdle

CallWithSynonyms ==
  /\ pc = "synonyms"
  /\ LET r == resolve_name_with_pubchem(name_cache, <<"E">>,
                                        Resp(404, TRUE, << >>, << >>, << >>),
                                        Resp(HTTP_OK, TRUE, << >>, <<input>>, << >>))
     IN  /\ parsed' = Some(r.result)
         /\ name_cache' = r.cache
         /\ requests' = requests \o r.reqs
  /\ pc' = "picked"
  /\ UNCHANGED <<input, cliVars, mainVars, scrapeVars, last, first, calls>>

NextSynonyms == CallWithSynonyms

SpecSynonyms == InitSynonyms /\ [][NextSynonyms]_vars
\* ------------------------------------------------------------------ claims

NoRepeat(seq) == \A i, j \in DOMAIN seq : i # j => seq[i] # seq[j]

\* C1: one scrape_all call requests at most max_pages pages, never requests a
\* URL it has already requested (the requested URLs are exactly seen_pages), and
\* every iteration of its loop is one request, so the loop ends after at most
\* max_pages iterations whatever the next links are.
C1_PaginatorTermination ==
  /\ Len(fetched) <= max_pages
  /\ NoRepeat(fetched)
  /\ pc \in {"while", "for"} => seen_pages = {fetched[i] : i \in DOMAIN fetched}
  /\ pc = "while" => pages = Len(fetched)
  /\ pc = "for" => pages + 1 = Len(fetched)

\* C1 witness: the next link of the second page points back to a page already
\* requested, and the loop is about to stop on it with the cap not reached.
C1_Witness ==
  /\ pc = "while"
  /\ url # None
  /\ url[1] \in seen_pages
  /\ Len(fetched) = 2
  /\ pages < max_pages

\* the requests made under a cache tag for a structure
RequestsUnder(endpoints, s) ==
  {i \in DOMAIN requests : requests[i][1] \in endpoints /\ requests[i][2] = s}

\* a repeated resolution (same function, same argument) asks nothing and
\* returns what the first one returned
RepeatIsServedFromCache ==
  last.repeat => last.reqs = << >> /\ last.result = first[last.fn][last.arg]

\* C2 as stated: at most one remote call per strategy tag (name, cactus) and
\* structure in a run, and a repeated resolution is served from the cache.
C2_OneCallPerTag ==
  /\ \A s \in Structures :
       /\ Cardinality(RequestsUnder({"property", "synonyms"}, s)) <= 1
       /\ Cardinality(RequestsUnder({"cactus"}, s)) <= 1
  /\ RepeatIsServedFromCache

\* C2 amended: at most one remote call per endpoint (property lookup, synonym
\* lookup, naming service) and structure in a run, hence at most two under the
\* tag name and one under the tag cactus; a repeated resolution returns the
\* result of the first one, the absent result included, and asks nothing.
C2_CacheConsistent ==
  /\ NoRepeat(requests)
  /\ \A s \in Structures :
       /\ Cardinality(RequestsUnder({"property", "synonyms"}, s)) <= 2
       /\ Cardinality(RequestsUnder({"cactus"}, s)) <= 1
  /\ RepeatIsServedFromCache

\* C2 witness: resolve_name is repeated for a structure whose first resolution
\* asked all three endpoints and found nothing.
C2_Witness ==
  /\ last.fn = "resolve_name"
  /\ last.repeat
  /\ last.result = None
  /\ Len(requests) = 3

\* C3: resolve_name of the first curated key, or of the same compound written
\* with single bond markers (equal to the key only after normalization),
\* returns the curated name and asks no endpoint; so does any structure that
\* matches an entry exactly or after normalization of both sides.
C3_DictionaryPrecedence ==
  /\ (last.fn = "resolve_name" /\ last.arg \in {KnownKey, KnownVariant})
       => last.result = Some(KNOWN_COMPOUND_NAMES[1].name) /\ last.reqs = << >>
  /\ \A i \in DOMAIN KNOWN_COMPOUND_NAMES :
       (/\ last.fn = "resolve_name"
        /\ \/ last.arg = KNOWN_COMPOUND_NAMES[i].key
           \/ Remove(Remove(last.arg, "/"), "\\")
                = Remove(Remove(KNOWN_COMPOUND_NAMES[i].key, "/"), "\\"))
       => last.result = Some(KNOWN_COMPOUND_NAMES[i].name) /\ last.reqs = << >>

\* C3 witness: the structure matches only after normalization and the cache
\* already held a name for it when resolve_name was called.
C3_Witness ==
  /\ last.fn = "resolve_name"
  /\ last.arg = KnownVariant
  /\ KnownVariant # KnownKey
  /\ last.cached
  /\ name_cache[PubchemKey(KnownVariant)] # None
  /\ last.result = Some(KNOWN_COMPOUND_NAMES[1].name)

\* the property lookup produced no name: it raised, answered another status
\* than 200, or its body was not the expected JSON with a name
PropertyYieldsNothing(pr) ==
  \/ pr.exc
  \/ pr.status # 200
  \/ ~pr.json_ok
  \/ pr.props = << >>
  \/ pr.props[1] = << >>

\* C4 as stated: whenever the property lookup was asked and yielded nothing,
\* the synonym lookup is asked too, before the database is given up.
C4_SynonymsStillAttempted ==
  (/\ last.fn \in {"resolve_name", "resolve_name_with_pubchem"}
   /\ Asked(last.reqs, "property")
   /\ PropertyYieldsNothing(last.pr))
    => Asked(last.reqs, "synonyms")

\* C5 as stated: a list-page request that raises (timeout, connection failure)
\* does not end the run.
C5_TransportNeverFatal == pc # "crashed"

\* the records produced so far, in the order they were appended
Emitted == all_results \o results

\* C6: the records are, at every moment, one per raw string in the order the
\* strings were found (targets in order, pages in traversal order, strings in
\* extraction order), the written output is that sequence unchanged, and the
\* two-page chain (page 1 "A>>B" with a next link, page 2 "C.D>E>F" without,
\* max_pages = 5) gives exactly two records with reactants [A] and [C, D].
C6_OutputOrdering ==
  /\ Len(Emitted) <= Len(extracted)
  /\ \A i \in DOMAIN Emitted :
       /\ Emitted[i].reactant_smiles = parse_reaction_string(extracted[i]).reactant_smiles
       /\ Emitted[i].product_smiles = parse_reaction_string(extracted[i]).product_smiles
  /\ output # None => output[1] = Emitted
  /\ (max_pages = 5 /\ pc = "while" /\ fetched = <<Page1, Page2>> /\ url = None)
       => /\ Len(results) = 2
          /\ results[1].reactant_smiles = << <<"A">> >>
          /\ results[2].reactant_smiles = << <<"C">>, <<"D">> >>

\* C6 witness: the two-page chain has been crawled with max_pages = 5 and the
\* loop is about to end on the missing next link of page 2.
C6_Witness ==
  /\ max_pages = 5
  /\ pc = "while"
  /\ fetched = <<Page1, Page2>>
  /\ url = None
  /\ Len(results) = 2

\* C7: every non-empty raw string of a fetched page has exactly one record or
\* is still waiting in the loop over the page's strings; the written output has
\* as many records as strings were found.
C7_NoRecordDropped ==
  /\ Len(all_results) + Len(results) + Len(rxn_strings) = Len(extracted)
  /\ output # None => Len(output[1]) = Len(extracted)
  /\ (pc = "done" /\ extracted # << >>) => output # None

AllEmpty(rec) ==
  rec.reactant_smiles = << >> /\ rec.solvent_smiles = << >> /\ rec.product_smiles = << >>

\* C7 witness: the written output holds a record with three empty lists, two
\* identical records, and a record whose solvent could not be named.
C7_Witness ==
  /\ pc = "done"
  /\ output # None
  /\ \E i \in DOMAIN output[1] : AllEmpty(output[1][i])
  /\ \E i, j \in DOMAIN output[1] : i < j /\ output[1][i] = output[1][j]
  /\ \E i \in DOMAIN output[1] :
       output[1][i].solvent_smiles # << >> /\ output[1][i].solvent = None

Water == <<"w","a","t","e","r">>

\* C9: the primary solvent is the first element of the list that is a key of
\* PREFERRED_SOLVENTS, named by the table without a request; else the first
\* element, named by the (memoised) remote lookup of that element; else none.
\* [E, O] gives O, water.  Every record has at most one solvent_smiles element
\* and it is one of the solvents of the record's raw string.
C9_PrimarySolvent ==
  /\ last.fn = "pick_primary_solvent" =>
       LET l    == last.arg
           pref == {i \in DOMAIN l : \E k \in DOMAIN PREFERRED_SOLVENTS :
                                        PREFERRED_SOLVENTS[k].key = l[i]}
       IN  IF pref # {}
           THEN /\ \E k \in DOMAIN PREFERRED_SOLVENTS :
                     /\ PREFERRED_SOLVENTS[k].key = l[Min(pref)]
                     /\ last.result = <<Some(l[Min(pref)]), Some(PREFERRED_SOLVENTS[k].name)>>
                /\ last.reqs = << >>
           ELSE IF l # << >>
           THEN /\ last.result[1] = Some(l[1])
                /\ PubchemKey(l[1]) \in DOMAIN name_cache
                /\ last.result[2] = name_cache[PubchemKey(l[1])]
                /\ \A i \in DOMAIN last.reqs :
                     last.reqs[i] \in {PropertyReq(l[1]), SynonymsReq(l[1])}
           ELSE last.result = <<None, None>> /\ last.reqs = << >>
  /\ last.arg = << <<"E">>, <<"O">> >> => last.result = <<Some(<<"O">>), Some(Water)>>
  /\ \A i \in DOMAIN Emitted :
       /\ Len(Emitted[i].solvent_smiles) <= 1
       /\ Emitted[i].solvent_smiles # << >> =>
            \E j \in DOMAIN parse_reaction_string(extracted[i]).solvents :
              parse_reaction_string(extracted[i]).solvents[j] = Emitted[i].solvent_smiles[1]

\* C9 witness: a record was made from a string whose first solvent is not in
\* the table and whose second is.
C9_Witness ==
  /\ pc = "for"
  /\ last.fn = "pick_primary_solvent"
  /\ last.arg = << <<"E">>, <<"O">> >>
  /\ results # << >>
  /\ results[Len(results)].solvent_smiles = << <<"O">> >>
  /\ results[Len(results)].solvent = Some(Water)

\* C10: a response with another status than 200 ends the loop of the current
\* target only: nothing is extracted from it, the records of the target's
\* earlier pages join all_results, the cache is untouched and main is at the
\* next target.
C10_Non200AbortsTarget ==
  [][(Len(fetched') = Len(fetched) + 1 /\ status' # None /\ status'[1] # 200)
       => /\ pc' = "main"
          /\ ti' = ti + 1
          /\ all_results' = all_results \o results
          /\ extracted' = extracted
          /\ name_cache' = name_cache
          /\ output' = output]_vars

\* C10 witness: the second page of a target answered 503 or 404, the record of
\* its first page is in all_results and another target is still to be crawled.
C10_Witness ==
  /\ pc = "main"
  /\ status # None
  /\ status[1] # 200
  /\ Len(fetched) = 2
  /\ all_results # << >>
  /\ ti <= Len(targets)
  /\ ~NoDoi(extract_doi_from_arg(targets[Len(targets)]))

RECURSIVE Flatten(_)
Flatten(ss) == IF ss = << >> THEN << >> ELSE Head(ss) \o Flatten(Tail(ss))

\* the k-th smallest element of a set of numbers
Nth(S, k) == CHOOSE x \in S : Cardinality({y \in S : y < x}) = k - 1

\* the k-th field of s by the positions of its '>' characters; empty when s
\* has fewer than k - 1 of them
FieldOf(s, k) ==
  LET gt == {i \in 1..Len(s) : s[i] = ">"}
  IN  IF Cardinality(gt) < k - 1 THEN << >>
      ELSE SubSeq(s, IF k = 1 THEN 1 ELSE Nth(gt, k - 1) + 1,
                     IF Cardinality(gt) >= k THEN Nth(gt, k) - 1 ELSE Len(s))

\* the positions of f where a token begins: a character that is neither a
\* blank nor a period, with only blanks between it and the previous period
TokenStarts(f) ==
  {i \in 1..Len(f) :
     /\ f[i] \notin {" ", "."}
     /\ \A j \in 1..(i - 1) :
          f[j] \notin {" ", "."} => \E m \in (j + 1)..(i - 1) : f[m] = "."}

Squeeze(f) == SelectSeq(f, LAMBDA c : c \notin {" ", "."})

\* toks are the non-empty, trimmed, period-separated tokens of f, in order
TokensOf(toks, f) ==
  /\ Len(toks) = Cardinality(TokenStarts(f))
  /\ \A i \in DOMAIN toks :
       /\ toks[i] # << >>
       /\ toks[i][1] # " " /\ toks[i][Len(toks[i])] # " "
       /\ \A j \in DOMAIN toks[i] : toks[i][j] \notin {".", ">"}
       /\ Contains(f, toks[i])
  /\ Squeeze(Flatten(toks)) = Squeeze(f)

\* C8: parse_reaction_string raises for no string; its three lists are the
\* tokens of the first three '>'-separated fields, a missing field counting as
\* empty; "A.B>>C" gives [A, B], [], [C].
C8_ParseReactionString ==
  parsed # None =>
    /\ "error" \notin DOMAIN parsed[1]
    /\ TokensOf(parsed[1].reactant_smiles, FieldOf(input, 1))
    /\ TokensOf(parsed[1].solvents, FieldOf(input, 2))
    /\ TokensOf(parsed[1].product_smiles, FieldOf(input, 3))
    /\ input = <<"A", ".", "B", ">", ">", "C">> =>
         /\ parsed[1].reactant_smiles = << <<"A">>, <<"B">> >>
         /\ parsed[1].solvents = << >>
         /\ parsed[1].product_smiles = << <<"C">> >>

\* C8 witness: a string with one separator and blanks around its tokens has
\* been parsed into two reactants, one solvent and no product.
C8_Witness ==
  /\ parsed # None
  /\ Cardinality({i \in 1..Len(input) : input[i] = ">"}) = 1
  /\ \E i \in 1..Len(input) : input[i] = " "
  /\ Len(parsed[1].reactant_smiles) = 2
  /\ Len(parsed[1].solvents) = 1
  /\ parsed[1].product_smiles = << >>


\* ---------------------------------------------------------------------- C11
\* C11: when the command line carries a valid --archive-limit n and an
\* archive URL, the archive contributes at most n targets, whatever the order
\* of the arguments.  limits are the valid values of --archive-limit the loop
\* read, expansions the number of targets each archive request added; the
\* largest limit is taken, so that only the order can break the cap.
C11_ArchiveCap ==
  (pc = "cli_done" /\ cli.limits # {}) =>
    \A k \in DOMAIN cli.expansions : cli.expansions[k] <= Max(cli.limits)

\* ---------------------------------------------------------------------- C12
\* C12: after --max-pages or --archive-limit with a value that is no integer,
\* both settings are what they were immediately before that argument.
C12_BadNumberRetained ==
  cli.bad => (max_pages = cli.prev_max_pages /\ archive_limit = cli.prev_limit)

\* ---------------------------------------------------------------------- C13
\* the words of a text: its maximal runs without whitespace
RECURSIVE Words(_)
Words(text) ==
  LET from == SkipSpace(text, 1)
      spaces == {k \in from..Len(text) : IsSpace(text[k])}
      to == IF spaces = {} THEN Len(text) ELSE Min(spaces) - 1
  IN  IF from > Len(text) THEN << >>
      ELSE <<SubSeq(text, from, to)>> \o Words(SubSeq(text, to + 1, Len(text)))

\* the words X of 'SMILES: X' in a text
AfterSmilesColon(text) ==
  LET ws == Words(text)
  IN  {ws[k + 1] : k \in {j \in 1..(Len(ws) - 1) : ws[j] = <<"S","M","I","L","E","S",":">>}}

NoMarkup(page) == \A b \in DOMAIN page : page[b].kind = "p"

\* how often a text mentions SMILES in any spelling, and as the word SMILES:
Mentions(text) ==
  Cardinality({k \in 1..(Len(text) - 5) : Lower(SubSeq(text, k, k + 5)) = <<"s","m","i","l","e","s">>})
ColonMentions(text) == Cardinality({j \in DOMAIN Words(text) : Words(text)[j] = <<"S","M","I","L","E","S",":">>})

\* every string of a table cell, a dt or a dd
MarkupValues(page) ==
  UNION {Range(BlockStrings(page[b])) : b \in {k \in DOMAIN page : page[k].kind # "p"}}

\* C13: parse_details_page gives a result also when the table and the dl
\* layers find nothing; a page without table and dl whose text mentions SMILES
\* only as 'SMILES: X' has exactly the reactants {X}; and the free-text layer
\* adds nothing to reactants found in a table or dl: the reactants are either
\* all values of the markup or none of them is.
C13_FallbackOrdering ==
  pc = "details_done" =>
    LET page == input
        data == parsed[1]
        text == PageText(page)
    IN  /\ DOMAIN data = {"reactant_smiles", "solvents", "product_smiles", "product_name"}
        /\ (NoMarkup(page) /\ AfterSmilesColon(text) # {}
              /\ Mentions(text) = ColonMentions(text))
             => data.reactant_smiles = AfterSmilesColon(text)
        /\ (data.reactant_smiles \cap MarkupValues(page) # {})
             => data.reactant_smiles \subseteq MarkupValues(page)

\* a page of two paragraphs, one of them 'SMILES: CCN'
C13_Witness ==
  /\ pc = "details_done"
  /\ input = <<PlainPara, SmilesPara>>
  /\ parsed[1].reactant_smiles = {CCN}

\* ---------------------------------------------------------------------- C19
\* the pairs of a definition list: a dt and the dd that is the next element
\* after it, whatever text nodes lie between them
DtDdPairs(children) ==
  {<<i, j>> \in (DOMAIN children) \X (DOMAIN children) :
     /\ i < j
     /\ children[i].name = "dt" /\ children[j].name = "dd"
     /\ \A k \in (i + 1)..(j - 1) : children[k].name = ""}

\* C19: when a category is empty after the table scan, the values of every
\* dt/dd pair of every dl are collected in the category of its key.
C19_DefinitionLists ==
  pc = "details_done" =>
    LET page == input
        data == parsed[1]
        tabled == TableLayer(NoData, page)
    IN  (tabled.reactant_smiles = << >> \/ tabled.solvents = << >>
           \/ tabled.product_smiles = << >>)
          => \A b \in {k \in DOMAIN page : page[k].kind = "dl"} :
               \A p \in DtDdPairs(page[b].children) :
                 LET dt == page[b].children[p[1]]
                     dd == page[b].children[p[2]]
                     category == Classify(Lower(Join(dt.strings, <<" ">>)))
                 IN  /\ category \in {"reactant_smiles", "solvents", "product_smiles"}
                          => Range(Collected(category, dd.strings)) \subseteq data[category]
                     /\ category = "product_name" => data.product_name # None

\* ---------------------------------------------------------------------- C14
\* C14: normalizing a normalized string changes nothing:
\* _norm_smiles(_norm_smiles(s)) = _norm_smiles(s).
C14_NormIdempotent ==
  pc = "normed" => _norm_smiles(parsed[1]) = parsed[1]

\* a string with both markers, more than one of a kind, and something left
C14_Witness ==
  /\ pc = "normed"
  /\ Cardinality({k \in DOMAIN input : input[k] = "/"}) >= 2
  /\ \E k \in DOMAIN input : input[k] = "\\"
  /\ parsed[1] # << >>
  /\ parsed[1] # input

\* ---------------------------------------------------------------------- C15
\* the positions in the run's requests at which an endpoint was asked for s
AskedAt(endpoint, s) == RequestsUnder({endpoint}, s)

\* C15: resolve_name tries dictionary, property lookup, synonym lookup and
\* naming service in this order.  A curated structure asks nothing; the
\* requests for a structure come in the order property, synonyms, cactus; the
\* synonym lookup is asked only after the property lookup, the naming service
\* only after both; nothing is asked after the strategy that gave the result;
\* and the result is absent only if all three services were asked.
C15_StrictOrder ==
  last.fn = "resolve_name" =>
    LET s == last.arg
    IN  /\ s \in {KnownKey, KnownVariant} => last.reqs = << >>
        /\ \A i \in AskedAt("synonyms", s) : \E j \in AskedAt("property", s) : j < i
        /\ \A i \in AskedAt("cactus", s) :
             /\ \E j \in AskedAt("property", s) : j < i
             /\ \E j \in AskedAt("synonyms", s) : j < i
        /\ (last.result # None /\ last.reqs # << >>) =>
             \/ last.reqs[Len(last.reqs)][1] = "property" /\ PropertyName(last.pr) = last.result
             \/ last.reqs[Len(last.reqs)][1] = "synonyms" /\ SynonymsName(last.sr) = last.result
             \/ last.reqs[Len(last.reqs)][1] = "cactus" /\ CactusName(last.cr) = last.result
        /\ last.result = None =>
             /\ AskedAt("property", s) # {}
             /\ AskedAt("synonyms", s) # {}
             /\ AskedAt("cactus", s) # {}

\* ---------------------------------------------------------------------- C16
\* a step keeps every cache entry: no key leaves, no value changes
CacheKept ==
  \A k \in DOMAIN name_cache : k \in DOMAIN name_cache' /\ name_cache'[k] = name_cache[k]

\* a structure looked up before, found or not, is told from one never looked
\* up: the database is asked exactly when its key is not in the cache
MarkerDistinct ==
  last.fn = "resolve_name_with_pubchem" => (last.cached <=> last.reqs = << >>)

\* C16: under every sequence of resolve_name, resolve_name_with_pubchem and
\* pick_primary_solvent calls a key of name_cache keeps its value and is never
\* removed, and the cached marker of a failed lookup is not taken for a
\* missing key.
C16_WriteOnce == [][CacheKept]_vars /\ []MarkerDistinct

\* a call on a structure already in the cache, which holds a name and a marker
C16_Witness ==
  /\ last.cached
  /\ \E k \in DOMAIN name_cache : name_cache[k] = None
  /\ \E k \in DOMAIN name_cache : name_cache[k] # None

\* ---------------------------------------------------------------------- C17
\* C17: the solvent name of a record whose solvent is no key of
\* PREFERRED_SOLVENTS is what the full chain of resolve_name gives for it: the
\* curated name for a curated structure, and an absent name only after the
\* naming service was asked for the structure.
C17_FullChain ==
  \A i \in DOMAIN Emitted :
    LET r == Emitted[i]
    IN  (r.solvent_smiles # << >> /\ ~InDict(PREFERRED_SOLVENTS, r.solvent_smiles[1])) =>
          /\ r.solvent_smiles[1] \in {KnownKey, KnownVariant} =>
               r.solvent = Some(KNOWN_COMPOUND_NAMES[1].name)
          /\ r.solvent = None => RequestsUnder({"cactus"}, r.solvent_smiles[1]) # {}

\* ---------------------------------------------------------------------- C18
\* a compound identifier: the letters CID followed by digits only
IsCidIdentifier(s) ==
  /\ Len(s) > 3
  /\ Lower(SubSeq(s, 1, 3)) = <<"c","i","d">>
  /\ \A k \in 4..Len(s) : s[k] \in Digits

\* C18: the synonym lookup names the structure by the first synonym that is
\* neither a CID identifier nor a CAS registry number (an empty entry is no
\* synonym), and fails if there is none.
C18_SynonymSelection ==
  pc = "picked" =>
    LET ok == {i \in DOMAIN input :
                 input[i] # << >> /\ ~IsCidIdentifier(input[i]) /\ ~IsCasNumber(input[i])}
    IN  parsed[1] = IF ok = {} THEN None ELSE Some(input[Min(ok)])
====
